---- MODULE Spec2Model ----
(***************************************************************************)
(* The pizza sales dashboard of src/app.py: one Streamlit script, main(),  *)
(* re-run from its first line on every user interaction.  A run reads      *)
(* pizza_sales.csv, derives the aggregates with pandas groupby/agg/sort,   *)
(* and renders them through three widgets (a date range, a slider, a       *)
(* button).                                                                *)
(*                                                                         *)
(* Text is a sequence of character codes, so that the textual order in     *)
(* which groupby lists its keys and the mixed-format date parser are both  *)
(* computed, not assumed.  Money is an integer number of cents; a ratio    *)
(* (a mean) is the pair <<numerator, denominator>>.  The file has at least *)
(* one row, every row has a value in every column, and the file does not   *)
(* change between the runs of one session.                                 *)
(***************************************************************************)
EXTENDS Integers, Sequences, FiniteSets, TLC

VARIABLES
    fileState,      \* pizza_sales.csv: "present" | "absent" | "unreadable"
    csv,            \* the rows of the file, in file order
    pc,             \* the section of main() about to run, or how the run ended
    exception,      \* the exception that ended the run, "" if none
    df,
    daily_sales,
    pizza_name_sales,
    pizza_category_sales,
    pizza_size_sales,
    overall_average_order_value,
    filtered_daily_sales,
    num_pizzas,
    top_n_pizzas,
    summary,
    rendered,       \* what this run has put on the page
    date_selection, \* <<start_date, end_date>> as st.date_input returned it
    slider_value,   \* session state of the slider, 0 if untouched
    button_clicked, \* TRUE in the run a click of the button triggers
    last_top_n      \* the top-N view of the previous run that drew one

locals ==
    <<df, daily_sales, pizza_name_sales, pizza_category_sales, pizza_size_sales,
      overall_average_order_value, date_selection, filtered_daily_sales,
      num_pizzas, top_n_pizzas, summary>>

session == <<slider_value, button_clicked>>

vars ==
    <<fileState, csv, pc, exception, locals, rendered, session, last_top_n>>

----------------------------------------------------------------------------
(* Text and dates *)

\* The decimal number written by the digits s[from..to].
RECURSIVE Num(_, _, _)
Num(s, from, to) ==
    IF to < from THEN 0
    ELSE 10 * Num(s, from, to - 1) + (s[to] - 48)   \* 48 is "0"

\* Python's str < str: lexicographic on the code points.
RECURSIVE StrLess(_, _)
StrLess(a, b) ==
    IF b = <<>> THEN FALSE
    ELSE IF a = <<>> THEN TRUE
    ELSE IF Head(a) # Head(b) THEN Head(a) < Head(b)
    ELSE StrLess(Tail(a), Tail(b))

\* pd.to_datetime(s, format='mixed', dayfirst=False) on a date: each value is
\* parsed on its own.  "YYYY-MM-DD" is ISO; "AA/BB/YYYY" is month first, and
\* day first when AA cannot be a month.  The result is <<year, month, day>>.
ToDatetime(s) ==
    IF s[5] = 45   \* "-"
    THEN <<Num(s, 1, 4), Num(s, 6, 7), Num(s, 9, 10)>>
    ELSE LET a == Num(s, 1, 2)
             b == Num(s, 4, 5)
             y == Num(s, 7, 10)
         IN  IF a <= 12 THEN <<y, a, b>> ELSE <<y, b, a>>

\* Timestamp comparison.
DateLess(x, y) ==
    \/ x[1] < y[1]
    \/ x[1] = y[1] /\ x[2] < y[2]
    \/ x[1] = y[1] /\ x[2] = y[2] /\ x[3] < y[3]

DateLeq(x, y) == x = y \/ DateLess(x, y)

\* Series.dt.hour of the timestamp parsed from order_date + ' ' + order_time,
\* the time being "HH:MM:SS".
Hour(order_time) == Num(order_time, 1, 2)

\* Series.dt.day_name(): the Gregorian weekday of <<year, month, day>>.
DayName(t) ==
    LET off == <<0, 3, 2, 5, 0, 3, 5, 1, 4, 6, 2, 4>>
        y == IF t[2] < 3 THEN t[1] - 1 ELSE t[1]
        w == (y + (y \div 4) - (y \div 100) + (y \div 400)
                + off[t[2]] + t[3]) % 7
    IN  <<"Sunday", "Monday", "Tuesday", "Wednesday", "Thursday", "Friday",
          "Saturday">>[w + 1]

----------------------------------------------------------------------------
(* pandas: groupby, agg, sort_values, head *)

\* The keys of df.groupby(col), which lists them sorted (sort=True): text keys.
RECURSIVE SortedStrs(_)
SortedStrs(S) ==
    IF S = {} THEN <<>>
    ELSE LET m == CHOOSE x \in S : \A y \in S \ {x} : StrLess(x, y)
         IN  <<m>> \o SortedStrs(S \ {m})

\* The same for integer keys.
RECURSIVE SortedInts(_)
SortedInts(S) ==
    IF S = {} THEN <<>>
    ELSE LET m == CHOOSE x \in S : \A y \in S \ {x} : x < y
         IN  <<m>> \o SortedInts(S \ {m})

Values(rows, col) == {rows[i][col] : i \in DOMAIN rows}

\* The rows of one group.
Group(rows, col, key) == SelectSeq(rows, LAMBDA r : r[col] = key)

\* agg 'sum' of a column.
RECURSIVE SumOf(_, _)
SumOf(rows, col) ==
    IF rows = <<>> THEN 0
    ELSE Head(rows)[col] + SumOf(Tail(rows), col)

\* agg 'nunique' of a column.
NUnique(rows, col) == Cardinality(Values(rows, col))

\* As if the slice were tail(n).
TailN(s, n) ==
    SubSeq(s, (IF n < Len(s) THEN Len(s) - n ELSE 0) + 1, Len(s))

\* DataFrame.head(n).
HeadN(s, n) == SubSeq(s, 1, IF n < Len(s) THEN n ELSE Len(s))

----------------------------------------------------------------------------
(* Section 2 of main(): preprocessing and the daily sales series *)

\* df['order_datetime'], df['hour'], df['day_of_week'].
Enrich(rows) ==
    [i \in DOMAIN rows |->
        [order_id |-> rows[i].order_id,
         order_date |-> rows[i].order_date,
         order_time |-> rows[i].order_time,
         pizza_name |-> rows[i].pizza_name,
         pizza_category |-> rows[i].pizza_category,
         pizza_size |-> rows[i].pizza_size,
         quantity |-> rows[i].quantity,
         total_price |-> rows[i].total_price,
         order_datetime |-> ToDatetime(rows[i].order_date)
                            \o <<Num(rows[i].order_time, 1, 2),
                                 Num(rows[i].order_time, 4, 5),
                                 Num(rows[i].order_time, 7, 8)>>,
         hour |-> Hour(rows[i].order_time),
         day_of_week |-> DayName(ToDatetime(rows[i].order_date))]]

\* As if the aggregation were 'first'.
DailyTotalRevenueFirst(group) == group[1].total_price

\* daily_total_revenue=('total_price', 'sum') of one group.
DailyTotalRevenue(group) == SumOf(group, "total_price")

\* daily_unique_orders=('order_id', 'nunique') of one group.
DailyUniqueOrders(group) == NUnique(group, "order_id")

\* df.groupby('order_date').agg(...).reset_index(): one row per distinct value
\* of the order_date column as the file writes it, in the keys' textual order.
GroupByOrderDate(rows) ==
    LET keys == SortedStrs(Values(rows, "order_date"))
    IN  [i \in 1..Len(keys) |->
            LET g == Group(rows, "order_date", keys[i])
            IN  [order_date |-> keys[i],
                 daily_total_revenue |-> DailyTotalRevenue(g),
                 daily_unique_orders |-> DailyUniqueOrders(g)]]

\* daily_sales['daily_average_order_value'] = revenue / unique orders.
WithDailyAverage(ds) ==
    [i \in DOMAIN ds |->
        [order_date |-> ds[i].order_date,
         daily_total_revenue |-> ds[i].daily_total_revenue,
         daily_unique_orders |-> ds[i].daily_unique_orders,
         daily_average_order_value |->
            <<ds[i].daily_total_revenue, ds[i].daily_unique_orders>>]]

\* daily_sales['order_date'] = pd.to_datetime(daily_sales['order_date'], ...).
ConvertOrderDate(ds) ==
    [i \in DOMAIN ds |-> [ds[i] EXCEPT !.order_date = ToDatetime(@)]]

\* One step of the sort: e goes after every entry not later than it.
RECURSIVE InsertByDate(_, _)
InsertByDate(s, e) ==
    IF s = <<>> THEN <<e>>
    ELSE IF DateLess(e.order_date, s[Len(s)].order_date)
         THEN InsertByDate(SubSeq(s, 1, Len(s) - 1), e) \o <<s[Len(s)]>>
         ELSE s \o <<e>>

\* As if the series were left in the order groupby gives it.
SortValuesOmitted(ds) == ds

\* daily_sales.sort_values(by='order_date'): ascending; numpy sorts an array
\* this short by insertion, so entries of equal date keep their order.
RECURSIVE SortValuesByDate(_)
SortValuesByDate(ds) ==
    IF ds = <<>> THEN <<>>
    ELSE InsertByDate(SortValuesByDate(SubSeq(ds, 1, Len(ds) - 1)), ds[Len(ds)])

DailySales(rows) ==
    SortValuesByDate(ConvertOrderDate(WithDailyAverage(GroupByOrderDate(rows))))

----------------------------------------------------------------------------
(* Section 3 of main(): the key sales metrics *)

\* df.groupby(col).agg(total_revenue=..., total_quantity_sold=...): the group
\* key is the index of the result.
GroupByDimension(rows, col) ==
    LET keys == SortedStrs(Values(rows, col))
    IN  [i \in 1..Len(keys) |->
            LET g == Group(rows, col, keys[i])
            IN  [index |-> keys[i],
                 total_revenue |-> SumOf(g, "total_price"),
                 total_quantity_sold |-> SumOf(g, "quantity")]]

RECURSIVE InsertByRevenueDesc(_, _)
InsertByRevenueDesc(s, e) ==
    IF s = <<>> THEN <<e>>
    ELSE IF s[Len(s)].total_revenue < e.total_revenue
         THEN InsertByRevenueDesc(SubSeq(s, 1, Len(s) - 1), e) \o <<s[Len(s)]>>
         ELSE s \o <<e>>

\* As if the ranking were left in the order of its keys.
SortByRevenueOmitted(ranking) == ranking

\* .sort_values(by='total_revenue', ascending=False): pandas sorts the
\* reversed column and reverses the result, so entries of equal revenue keep
\* their order.
RECURSIVE SortValuesByRevenueDesc(_)
SortValuesByRevenueDesc(ranking) ==
    IF ranking = <<>> THEN <<>>
    ELSE InsertByRevenueDesc(
             SortValuesByRevenueDesc(SubSeq(ranking, 1, Len(ranking) - 1)),
             ranking[Len(ranking)])

DimensionSales(rows, col) ==
    SortValuesByRevenueDesc(GroupByDimension(rows, col))

RECURSIVE SumSeq(_)
SumSeq(s) == IF s = <<>> THEN 0 ELSE Head(s) + SumSeq(Tail(s))

\* df.groupby('order_id')['total_price'].sum()
OrderTotals(rows) ==
    LET ids == SortedInts(Values(rows, "order_id"))
    IN  [i \in 1..Len(ids) |->
            SumOf(Group(rows, "order_id", ids[i]), "total_price")]

\* Series.mean()
Mean(s) == <<SumSeq(s), Len(s)>>

\* As if the mean were taken over the line items: df['total_price'].mean().
MeanOfLineItems(rows) == <<SumOf(rows, "total_price"), Len(rows)>>

\* df.groupby('order_id')['total_price'].sum().mean()
OverallAverageOrderValue(rows) == Mean(OrderTotals(rows))

----------------------------------------------------------------------------
(* The widgets *)

\* value=5 of st.slider.
SliderDefault == 5

IsLeap(y) == (y % 4 = 0 /\ y % 100 # 0) \/ y % 400 = 0

DaysInMonth(y, m) ==
    IF m = 2 THEN (IF IsLeap(y) THEN 29 ELSE 28)
    ELSE IF m \in {4, 6, 9, 11} THEN 30 ELSE 31

\* The days st.date_input lets the user pick: min_value <= day <= max_value.
PickableDays(lo, hi) ==
    LET months == IF lo[1] = hi[1] THEN lo[2]..hi[2] ELSE 1..12
        days == IF lo[1] = hi[1] /\ lo[2] = hi[2] THEN lo[3]..hi[3] ELSE 1..31
    IN  {t \in (lo[1]..hi[1]) \X months \X days :
            /\ t[3] <= DaysInMonth(t[1], t[2])
            /\ DateLeq(lo, t)
            /\ DateLeq(t, hi)}

\* daily_sales['order_date'].min().date() and .max().date()
MinDate(ds) ==
    CHOOSE d \in Values(ds, "order_date") :
        \A x \in Values(ds, "order_date") : DateLeq(d, x)

MaxDate(ds) ==
    CHOOSE d \in Values(ds, "order_date") :
        \A x \in Values(ds, "order_date") : DateLeq(x, d)

\* As if the upper bound were exclusive.
DateFilterExclusive(ds, start_date, end_date) ==
    SelectSeq(ds, LAMBDA e : DateLeq(start_date, e.order_date)
                             /\ DateLess(e.order_date, end_date))

\* daily_sales[(order_date.dt.date >= start_date)
\*             & (order_date.dt.date <= end_date)]
DateFilter(ds, start_date, end_date) ==
    SelectSeq(ds, LAMBDA e : DateLeq(start_date, e.order_date)
                             /\ DateLeq(e.order_date, end_date))

\* Series.idxmax(): the index of the first entry holding the maximum.
IdxMaxQuantity(ranking) ==
    LET i == CHOOSE j \in DOMAIN ranking :
                 /\ \A k \in DOMAIN ranking :
                        ranking[k].total_quantity_sold
                            <= ranking[j].total_quantity_sold
                 /\ \A k \in 1..(j - 1) :
                        ranking[k].total_quantity_sold
                            < ranking[j].total_quantity_sold
    IN  ranking[i].index

----------------------------------------------------------------------------
(* main(), section by section *)

\* 1. Load Data: read_csv, and the except clause for FileNotFoundError only.
\* Any other failure of read_csv leaves main() as an exception.
LoadData ==
    /\ pc = "load"
    /\ IF fileState = "present"
       THEN /\ df' = csv
            /\ pc' = "preprocess"
            /\ UNCHANGED <<rendered, exception>>
       ELSE IF fileState = "absent"
       THEN /\ rendered' = rendered \cup {"error"}
            /\ pc' = "returned"
            /\ UNCHANGED <<df, exception>>
       ELSE /\ exception' = "PermissionError"
            /\ pc' = "crashed"
            /\ UNCHANGED <<df, rendered>>
    /\ UNCHANGED <<fileState, csv, daily_sales, pizza_name_sales,
                   pizza_category_sales, pizza_size_sales,
                   overall_average_order_value, date_selection,
                   filtered_daily_sales,
                   num_pizzas, top_n_pizzas, summary, session, last_top_n>>

\* 2. Data Preprocessing, and the daily sales metrics.
Preprocess ==
    /\ pc = "preprocess"
    /\ df' = Enrich(df)
    /\ daily_sales' = DailySales(df)
    /\ pc' = "metrics"
    /\ UNCHANGED <<fileState, csv, exception, pizza_name_sales,
                   pizza_category_sales, pizza_size_sales,
                   overall_average_order_value, date_selection,
                   filtered_daily_sales,
                   num_pizzas, top_n_pizzas, summary, rendered, session,
                   last_top_n>>

\* 3. Calculate Key Sales Metrics.
KeyMetrics ==
    /\ pc = "metrics"
    /\ pizza_name_sales' = DimensionSales(df, "pizza_name")
    /\ pizza_category_sales' = DimensionSales(df, "pizza_category")
    /\ pizza_size_sales' = DimensionSales(df, "pizza_size")
    /\ overall_average_order_value' = OverallAverageOrderValue(df)
    /\ pc' = "revenue"
    /\ UNCHANGED <<fileState, csv, exception, df, daily_sales,
                   date_selection, filtered_daily_sales, num_pizzas,
                   top_n_pizzas, summary, rendered, session, last_top_n>>

\* Total Revenue Over Time: st.date_input gives the range the user has
\* selected, any start_date <= end_date within [min_date, max_date], which is
\* [min_date, max_date] itself until the user selects another; then the
\* filter and the chart.
RevenueOverTime ==
    /\ pc = "revenue"
    /\ \E min_date \in {MinDate(daily_sales)},
          max_date \in {MaxDate(daily_sales)} :
          \E start_date, end_date \in PickableDays(min_date, max_date) :
             /\ DateLeq(start_date, end_date)
             /\ date_selection' = <<start_date, end_date>>
             /\ filtered_daily_sales' =
                   DateFilter(daily_sales, start_date, end_date)
    /\ rendered' = rendered \cup {"date_input", "fig1"}
    /\ pc' = "top_n"
    /\ UNCHANGED <<fileState, csv, exception, df, daily_sales, pizza_name_sales,
                   pizza_category_sales, pizza_size_sales,
                   overall_average_order_value, num_pizzas, top_n_pizzas,
                   summary, slider_value, button_clicked, last_top_n>>

\* Top N Best-Selling Pizzas by Revenue: st.slider(min_value=1,
\* max_value=len(pizza_name_sales), value=5) gives the user's value, or 5 while
\* it is untouched; st.slider raises StreamlitAPIException for a value outside
\* [min_value, max_value].  Then head() and the chart.
TopN ==
    /\ pc = "top_n"
    /\ LET value == IF slider_value = 0 THEN SliderDefault ELSE slider_value
       IN  IF value < 1 \/ value > Len(pizza_name_sales)
           THEN /\ exception' = "StreamlitAPIException"
                /\ pc' = "crashed"
                /\ UNCHANGED <<num_pizzas, top_n_pizzas, rendered>>
           ELSE /\ num_pizzas' = value
                /\ top_n_pizzas' = HeadN(pizza_name_sales, value)
                /\ rendered' = rendered \cup {"slider", "fig2"}
                /\ pc' = "charts"
                /\ UNCHANGED exception
    /\ UNCHANGED <<fileState, csv, df, daily_sales, pizza_name_sales,
                   pizza_category_sales, pizza_size_sales,
                   overall_average_order_value, date_selection,
                   filtered_daily_sales, summary, session, last_top_n>>

\* Sales Distribution by Pizza Category and by Pizza Size.
Distributions ==
    /\ pc = "charts"
    /\ rendered' = rendered \cup {"fig3", "fig4"}
    /\ pc' = "summary"
    /\ UNCHANGED <<fileState, csv, exception, locals, session, last_top_n>>

\* Summary Report: st.button is True only in the run its click triggered.
SummaryReport ==
    /\ pc = "summary"
    /\ IF button_clicked
       THEN /\ summary' =
                [overall_average_order_value |-> overall_average_order_value,
                 highest_revenue_pizza |-> pizza_name_sales[1].index,
                 most_popular_pizza |-> IdxMaxQuantity(pizza_name_sales),
                 dominant_category |-> pizza_category_sales[1].index,
                 preferred_size |-> pizza_size_sales[1].index]
            /\ rendered' = rendered \cup {"button", "summary"}
       ELSE /\ rendered' = rendered \cup {"button"}
            /\ UNCHANGED summary
    /\ pc' = "done"
    /\ UNCHANGED <<fileState, csv, exception, df, daily_sales, pizza_name_sales,
                   pizza_category_sales, pizza_size_sales,
                   overall_average_order_value, date_selection,
                   filtered_daily_sales,
                   num_pizzas, top_n_pizzas, session, last_top_n>>

----------------------------------------------------------------------------
(* User interactions: each stores the widget's new value in the session and *)
(* re-runs main() from its first line with fresh locals.                    *)

Rerun ==
    /\ pc' = "load"
    /\ exception' = ""
    /\ df' = <<>>
    /\ daily_sales' = <<>>
    /\ pizza_name_sales' = <<>>
    /\ pizza_category_sales' = <<>>
    /\ pizza_size_sales' = <<>>
    /\ overall_average_order_value' = <<>>
    /\ filtered_daily_sales' = <<>>
    /\ num_pizzas' = 0
    /\ top_n_pizzas' = <<>>
    /\ summary' = <<>>
    /\ rendered' = {}
    /\ date_selection' = <<>>
    /\ last_top_n' = IF top_n_pizzas # <<>> THEN top_n_pizzas ELSE last_top_n
    /\ UNCHANGED <<fileState, csv>>

SelectDates ==
    /\ "date_input" \in rendered
    /\ button_clicked' = FALSE
    /\ UNCHANGED slider_value
    /\ Rerun

MoveSlider ==
    /\ "slider" \in rendered
    /\ \E k \in 1..Len(pizza_name_sales) : slider_value' = k
    /\ button_clicked' = FALSE
    /\ Rerun

ClickButton ==
    /\ "button" \in rendered
    /\ button_clicked' = TRUE
    /\ UNCHANGED slider_value
    /\ Rerun

----------------------------------------------------------------------------
(* The files the runs are checked on *)

MaxRows == 3        \* rows of a file, all row orders enumerated
MaxRowsWide == 5    \* rows of a file whose rows differ in the pizza sold
NumNames == 5       \* distinct pizza names of those files

Digits2(n) == <<48 + (n \div 10), 48 + (n % 10)>>
Digits4(n) == Digits2(n \div 100) \o Digits2(n % 100)

\* "YYYY-MM-DD" and "AA/BB/YYYY"
IsoDate(y, m, d) == Digits4(y) \o <<45>> \o Digits2(m) \o <<45>> \o Digits2(d)
SlashDate(a, b, y) == Digits2(a) \o <<47>> \o Digits2(b) \o <<47>> \o Digits4(y)

\* "2015-01-12" and "01/12/2015" are one day written in two layouts;
\* "13/01/2015" can only be day first; "01/14/2015" sorts before all the
\* others as text and is the latest day.
DateTexts ==
    {IsoDate(2015, 1, 12), SlashDate(1, 12, 2015), SlashDate(13, 1, 2015),
     SlashDate(1, 14, 2015)}

\* "11:38:36"
OrderTime == <<49, 49, 58, 51, 56, 58, 51, 54>>

\* "A", "B", ...
Label(i) == <<64 + i>>

Row(id, date, name, category, size, qty, price) ==
    [order_id |-> id, order_date |-> date, order_time |-> OrderTime,
     pizza_name |-> name, pizza_category |-> category, pizza_size |-> size,
     quantity |-> qty, total_price |-> price]

Files(rows, n) == UNION {[1..k -> rows] : k \in 1..n}

\* Files whose rows differ in the order, the date and the price.
DailyFiles ==
    Files({Row(id, d, Label(1), Label(1), Label(1), 1, p) :
              id \in {1, 2}, d \in DateTexts, p \in {1, 2}}, MaxRows)

\* The pizzas on sale, each a <<name, category, size>>: two values of every
\* dimension, and every pair of values of two dimensions on some pizza.
Menu ==
    {<<Label(1), Label(1), Label(1)>>, <<Label(1), Label(2), Label(2)>>,
     <<Label(2), Label(1), Label(2)>>, <<Label(2), Label(2), Label(1)>>}

\* Files whose rows differ in the pizza, the quantity and the price.
MetricFiles ==
    Files({Row(1, IsoDate(2015, 1, 12), m[1], m[2], m[3], q, p) :
              m \in Menu, q \in {1, 2}, p \in {1, 2}}, MaxRows)

\* Files of up to MaxRowsWide rows over NumNames pizza names, one file for each
\* multiset of rows (its rows in ascending order of name, then price): every
\* aggregate of main() groups or sums, so the row order changes none of them.
WideRowLeq(r, t) ==
    \/ StrLess(r.pizza_name, t.pizza_name)
    \/ r.pizza_name = t.pizza_name /\ r.total_price <= t.total_price

WideRows ==
    {Row(1, IsoDate(2015, 1, 12), Label(n), Label(1), Label(1), 1, p) :
        n \in 1..NumNames, p \in {1, 2}}

RECURSIVE WideFilesOf(_)
WideFilesOf(k) ==
    IF k = 1 THEN {<<r>> : r \in WideRows}
    ELSE UNION {{Append(f, r) :
                       r \in {t \in WideRows : WideRowLeq(f[k - 1], t)}} :
                   f \in WideFilesOf(k - 1)}

WideFiles == UNION {WideFilesOf(k) : k \in 1..MaxRowsWide}

InitWith(states, files) ==
    /\ fileState \in states
    /\ csv \in (IF fileState = "present" THEN files ELSE {<<>>})
    /\ pc = "load"
    /\ exception = ""
    /\ df = <<>>
    /\ daily_sales = <<>>
    /\ pizza_name_sales = <<>>
    /\ pizza_category_sales = <<>>
    /\ pizza_size_sales = <<>>
    /\ overall_average_order_value = <<>>
    /\ filtered_daily_sales = <<>>
    /\ num_pizzas = 0
    /\ top_n_pizzas = <<>>
    /\ summary = <<>>
    /\ rendered = {}
    /\ date_selection = <<>>
    /\ slider_value = 0
    /\ button_clicked = FALSE
    /\ last_top_n = <<>>

\* The whole dashboard.
Init == InitWith({"present", "absent", "unreadable"}, WideFiles)

Next ==
    \/ LoadData
    \/ Preprocess
    \/ KeyMetrics
    \/ RevenueOverTime
    \/ TopN
    \/ Distributions
    \/ SummaryReport
    \/ SelectDates
    \/ MoveSlider
    \/ ClickButton

Spec == Init /\ [][Next]_vars

\* The aggregation pipeline, up to the date filter, on every file of a family.
NextPipeline ==
    \/ LoadData
    \/ Preprocess
    \/ KeyMetrics
    \/ RevenueOverTime
    \/ SelectDates

InitDaily == InitWith({"present"}, DailyFiles)

SpecDaily == InitDaily /\ [][NextPipeline]_vars

InitMetrics == InitWith({"present"}, MetricFiles)

SpecMetrics == InitMetrics /\ [][NextPipeline]_vars

----------------------------------------------------------------------------
(* Properties *)

\* The sum of a column over the rows at the positions I, taken in any order.
RECURSIVE SumAt(_, _, _)
SumAt(rows, I, col) ==
    IF I = {} THEN 0
    ELSE LET i == CHOOSE j \in I : TRUE
         IN  rows[i][col] + SumAt(rows, I \ {i}, col)

\* The run has computed the daily sales series / the key metrics.
DailyComputed == daily_sales # <<>>
MetricsComputed == pizza_name_sales # <<>>

NoAggregate ==
    /\ daily_sales = <<>>
    /\ pizza_name_sales = <<>>
    /\ pizza_category_sales = <<>>
    /\ pizza_size_sales = <<>>
    /\ overall_average_order_value = <<>>

\* C1: a run whose dataset file is absent or unreadable ends with main()
\* returned, the error message on the page and nothing else rendered, and no
\* aggregate computed.
C1_LoadFailureReported ==
    (fileState # "present" /\ pc # "load") =>
        /\ pc = "returned"
        /\ exception = ""
        /\ rendered = {"error"}
        /\ NoAggregate

\* C2: the daily_total_revenue of all entries of the daily sales series sum to
\* the total_price of all transactions.
C2_DailyRevenueSumsToTotal ==
    DailyComputed =>
        SumAt(daily_sales, DOMAIN daily_sales, "daily_total_revenue")
            = SumAt(csv, DOMAIN csv, "total_price")

C2_Witness ==
    /\ DailyComputed
    /\ Len(daily_sales) >= 2
    /\ \E k \in DOMAIN csv :
          Len(Group(csv, "order_date", csv[k].order_date)) >= 2

\* C3: the daily sales series has exactly one entry for each calendar date of
\* the input, whatever the layouts the rows write it in.
C3_OneEntryPerCalendarDate ==
    DailyComputed =>
        /\ \A i, j \in DOMAIN daily_sales :
              i # j => daily_sales[i].order_date # daily_sales[j].order_date
        /\ Values(daily_sales, "order_date")
              = {ToDatetime(csv[i].order_date) : i \in DOMAIN csv}

\* C4: each entry's daily_unique_orders is the number of distinct order_id
\* among the rows of its date.
C4_UniqueOrdersOfTheDate ==
    DailyComputed =>
        \A i \in DOMAIN daily_sales :
            daily_sales[i].daily_unique_orders =
                Cardinality({csv[j].order_id :
                    j \in {k \in DOMAIN csv :
                              ToDatetime(csv[k].order_date)
                                  = daily_sales[i].order_date}})

IsSortedByDate(ds) ==
    \A i \in 1..(Len(ds) - 1) : DateLeq(ds[i].order_date, ds[i + 1].order_date)

\* C5: the daily sales series, and what the filter passes on to the chart, are
\* in ascending order of calendar date.
C5_DailySalesChronological ==
    /\ IsSortedByDate(daily_sales)
    /\ IsSortedByDate(filtered_daily_sales)

\* The keys in textual order are not in chronological order.
C5_Witness ==
    /\ pc = "top_n"
    /\ Len(filtered_daily_sales) >= 2
    /\ ~IsSortedByDate(ConvertOrderDate(GroupByOrderDate(csv)))

IsRankingOf(ranking, col) ==
    /\ Len(ranking) = Cardinality(Values(csv, col))
    /\ Values(ranking, "index") = Values(csv, col)
    /\ \A i \in 1..(Len(ranking) - 1) :
          ranking[i].total_revenue >= ranking[i + 1].total_revenue
    /\ \A i \in DOMAIN ranking :
          LET I == {j \in DOMAIN csv : csv[j][col] = ranking[i].index}
          IN  /\ ranking[i].total_revenue = SumAt(csv, I, "total_price")
              /\ ranking[i].total_quantity_sold = SumAt(csv, I, "quantity")

\* C6: each of the three rankings has one entry per distinct value of its
\* dimension, in non-increasing order of total_revenue, each entry holding the
\* sums of total_price and of quantity over the rows of its value.
C6_DimensionRankings ==
    MetricsComputed =>
        /\ IsRankingOf(pizza_name_sales, "pizza_name")
        /\ IsRankingOf(pizza_category_sales, "pizza_category")
        /\ IsRankingOf(pizza_size_sales, "pizza_size")

\* A ranking whose order is not the order of its keys, with a group of two rows.
C6_Witness ==
    /\ MetricsComputed
    /\ Len(pizza_name_sales) = 2
    /\ StrLess(pizza_name_sales[2].index, pizza_name_sales[1].index)
    /\ Len(Group(csv, "pizza_name", pizza_name_sales[1].index)) = 2
    /\ Len(pizza_size_sales) = 2
    /\ pizza_size_sales[1].total_revenue > pizza_size_sales[2].total_revenue

\* C7: the overall average order value, times the number of distinct orders,
\* is the total_price of all transactions: the mean over the orders of their
\* totals, however many line items an order has.
C7_MeanOfOrderTotals ==
    MetricsComputed =>
        /\ overall_average_order_value[2] > 0
        /\ overall_average_order_value[1]
                  * Cardinality(Values(csv, "order_id"))
              = overall_average_order_value[2]
                  * SumAt(csv, DOMAIN csv, "total_price")

\* Two orders of different totals, one of them of two line items.
C7_Witness ==
    /\ MetricsComputed
    /\ Len(csv) = 3
    /\ Cardinality(Values(csv, "order_id")) = 2
    /\ overall_average_order_value = <<5, 2>>
    /\ Len(Group(csv, "order_id", 1)) = 2
    /\ SumOf(Group(csv, "order_id", 1), "total_price") = 4

IsPrefix(s, t) == Len(s) <= Len(t) /\ \A i \in DOMAIN s : s[i] = t[i]

\* C8: the top-K view is the first K entries of the pizza_name ranking, in its
\* order, and the view of one run is a prefix of, or has as a prefix, the view
\* of the run before it.
C8_TopKIsPrefix ==
    top_n_pizzas # <<>> =>
        /\ Len(top_n_pizzas) = num_pizzas
        /\ \A i \in 1..num_pizzas : top_n_pizzas[i] = pizza_name_sales[i]
        /\ last_top_n # <<>> =>
              \/ IsPrefix(last_top_n, top_n_pizzas)
              \/ IsPrefix(top_n_pizzas, last_top_n)

\* The user has moved the slider from one K to a larger one, below the
\* number of names, on a ranking of several revenues.
C8_Witness ==
    /\ top_n_pizzas # <<>>
    /\ last_top_n # <<>>
    /\ Len(last_top_n) < num_pizzas
    /\ num_pizzas < Len(pizza_name_sales)
    /\ pizza_name_sales[1].total_revenue
          > pizza_name_sales[num_pizzas].total_revenue

\* C9: the filtered series holds the entries of the daily sales series whose
\* date lies in [start_date, end_date], bounds included, each once and in
\* the order of the series.
C9_FilterIsInclusiveRange ==
    pc = "top_n" =>
        LET I == {i \in DOMAIN daily_sales :
                     /\ DateLeq(date_selection[1], daily_sales[i].order_date)
                     /\ DateLeq(daily_sales[i].order_date, date_selection[2])}
        IN  /\ Len(filtered_daily_sales) = Cardinality(I)
            /\ \A k \in DOMAIN filtered_daily_sales :
                  \E i \in I :
                      /\ Cardinality({j \in I : j <= i}) = k
                      /\ filtered_daily_sales[k] = daily_sales[i]

\* A range that keeps two entries, the later one on end_date, and drops another.
C9_Witness ==
    /\ pc = "top_n"
    /\ Len(filtered_daily_sales) = 2
    /\ Len(daily_sales) = 3
    /\ filtered_daily_sales[2].order_date = date_selection[2]
    /\ filtered_daily_sales[1].order_date # date_selection[2]

\* C10: in a run that reaches the top-K view, on a dataset of at least one
\* row, the slider hands a K with 1 <= K <= number of distinct pizza names to
\* the slice, its initial value of the first run included.
C10_SliderValueInRange ==
    (pc \in {"charts", "summary", "done"}
        \/ (pc = "crashed" /\ exception = "StreamlitAPIException")) =>
        /\ pc # "crashed"
        /\ 1 <= num_pizzas
        /\ num_pizzas <= Len(pizza_name_sales)

====
